---- MODULE Spec2Model ----
(***************************************************************************)
(* A model of backend/server.py: the product CRUD handlers of the          *)
(* e-commerce API and the MongoDB collection they share.                   *)
(*                                                                         *)
(* Every handler is cut at its store calls: one step of a handler is one   *)
(* call on products_collection together with the local computation that    *)
(* precedes the next call.  Several workers serve requests against the     *)
(* same collection, so the steps of different requests interleave; each    *)
(* single store call is atomic on its document.                            *)
(*                                                                         *)
(* Modelling conventions                                                   *)
(*   - a string is its leading characters followed by a run of "x", so     *)
(*     that a string of a thousand characters is a small value;            *)
(*   - Python's None is the empty tuple <<>>, a present value v of a       *)
(*     request body is <<v>>; a body is a function from the field names    *)
(*     it carries to such values (a field outside its domain is unset);    *)
(*   - datetime.utcnow() reads the variable clock, which never runs        *)
(*     backwards and may stay the same between two readings;               *)
(*   - uuid.uuid4() hands out 1, 2, ... : identifiers never repeat;        *)
(*   - the store answers every call (no connection failures);              *)
(*   - a category filter is a pattern of literal characters and ".", the   *)
(*     part of the regular expressions the store accepts that the list     *)
(*     requests below use; skip and limit are not negative.                *)
(***************************************************************************)
EXTENDS Integers, Sequences, FiniteSets, TLC

(* ------------------------------ bounds --------------------------------- *)
NumWorkers == 2      \* requests that can be in flight at the same time
MaxProducts == 2     \* identifiers uuid4 hands out in one behaviour
MaxClock == 1        \* last clock reading
MaxLimit == 2        \* largest limit= of a list request
MaxSkip == 1         \* largest skip= of a list request

Workers == 1..NumWorkers
Ids == 1..MaxProducts

(* ------------------------- program constants --------------------------- *)
NameMaxLength == 200
DescriptionMaxLength == 1000
CategoryMaxLength == 100
HTTP_200_OK == 200
HTTP_201_CREATED == 201
HTTP_204_NO_CONTENT == 204
HTTP_404_NOT_FOUND == 404
HTTP_422_UNPROCESSABLE_ENTITY == 422
HTTP_500_INTERNAL_SERVER_ERROR == 500

(* ------------------------------ values --------------------------------- *)
None == <<>>
Some(v) == <<v>>

\* strings: Str(<<"M", "u", "g">>) is "Mug", Rep(n) is "x" * n
Str(text) == [text |-> text, fill |-> 0]
Rep(n) == [text |-> <<>>, fill |-> n]
StrLen(s) == Len(s.text) + s.fill
CharAt(s, i) == IF i <= Len(s.text) THEN s.text[i] ELSE "x"

Min(a, b) == IF a <= b THEN a ELSE b

RequiredFields == {"name", "description", "price", "category", "stock_quantity"}
BodyFields == RequiredFields \cup {"image_url"}
ProductKeys == BodyFields \cup {"id", "created_at", "updated_at"}

(* ----------------------- pydantic validation --------------------------- *)
\* price: float = Field(..., gt=0)
PriceOkGe(x) == x >= 0
PriceOk(x) == x > 0

\* stock_quantity: int = Field(..., ge=0)
StockOk(x) == x >= 0

\* min_length / max_length of a str field
LengthOk(x, lo, hi) == StrLen(x) >= lo /\ StrLen(x) <= hi

\* the Field(...) constraint of field f on a value that is not None
FieldOk(f, x) ==
    CASE f = "name" -> LengthOk(x, 1, NameMaxLength)
      [] f = "description" -> LengthOk(x, 1, DescriptionMaxLength)
      [] f = "price" -> PriceOk(x)
      [] f = "category" -> LengthOk(x, 1, CategoryMaxLength)
      [] f = "stock_quantity" -> StockOk(x)
      [] f = "image_url" -> TRUE

\* ProductCreate(**body) validates: every required field present and not
\* None and within its constraint; image_url is Optional, unconstrained.
ProductCreate(body) ==
    /\ \A f \in RequiredFields :
          f \in DOMAIN body /\ body[f] # None /\ FieldOk(f, body[f][1])

\* ProductUpdate(**body) validates: every field is Optional; a value that is
\* not None must meet the constraint of its field.
ProductUpdate(body) ==
    \A f \in DOMAIN body : body[f] = None \/ FieldOk(f, body[f][1])

\* the value a document holds for field f of a body (image_url stays Optional)
Stored(f, v) == IF f = "image_url" THEN v ELSE v[1]

\* product.dict() of a validated ProductCreate
ProductDict(body) ==
    [f \in BodyFields |->
        IF f \in DOMAIN body THEN Stored(f, body[f]) ELSE None]

(* ------------------------- the document store -------------------------- *)
Matching(coll, id) == {d \in coll : d.id = id}

\* collection.find_one({"id": id}): a matching document or None
find_one(coll, id) ==
    IF Matching(coll, id) = {} THEN None
    ELSE Some(CHOOSE d \in Matching(coll, id) : TRUE)

\* collection.insert_one(doc): the store adds its own _id
insert_one(coll, doc, oid) == coll \cup {doc @@ ("_id" :> oid)}

\* {"$set": data} on one document: the named fields are replaced, no other
SetFieldsReplace(d, data) ==
    [k \in DOMAIN d |->
        IF k \in DOMAIN data THEN data[k]
        ELSE IF k \in {"_id", "id", "created_at"} THEN d[k]
        ELSE IF k \in {"price", "stock_quantity", "updated_at"} THEN 0
        ELSE IF k = "image_url" THEN None
        ELSE Str(<<>>)]
SetFields(d, data) ==
    [k \in DOMAIN d \cup DOMAIN data |->
        IF k \in DOMAIN data THEN data[k] ELSE d[k]]

\* collection.update_one({"id": id}, {"$set": data}): no upsert
update_one_upsert(coll, id, data) ==
    IF Matching(coll, id) = {} THEN coll \cup {data @@ ("id" :> id)}
    ELSE LET d == CHOOSE x \in Matching(coll, id) : TRUE
         IN  (coll \ {d}) \cup {SetFields(d, data)}
update_one(coll, id, data) ==
    IF Matching(coll, id) = {} THEN coll
    ELSE LET d == CHOOSE x \in Matching(coll, id) : TRUE
         IN  (coll \ {d}) \cup {SetFields(d, data)}

\* result.modified_count of that update_one: 1 when a document matched and
\* the $set changed it, 0 otherwise
modified_count(coll, id, data) ==
    IF Matching(coll, id) = {} THEN 0
    ELSE LET d == CHOOSE x \in Matching(coll, id) : TRUE
         IN  IF SetFields(d, data) = d THEN 0 ELSE 1

\* collection.delete_one({"id": id}) and its result.deleted_count
delete_one(coll, id) ==
    IF Matching(coll, id) = {} THEN coll
    ELSE coll \ {CHOOSE x \in Matching(coll, id) : TRUE}
deleted_count_unchecked(coll, id) == 1
deleted_count(coll, id) == IF Matching(coll, id) = {} THEN 0 ELSE 1

\* product_helper(product): the nine Product keys of a stored document
product_helper(product) == [k \in ProductKeys |-> product[k]]

(* --------------------- the category filter ($regex) -------------------- *)
\* "$options": "i"
Lower(c) ==
    CASE c = "K" -> "k"
      [] c = "I" -> "i"
      [] c = "T" -> "t"
      [] OTHER -> c

\* one pattern character against one text character: "." matches any
CharMatches(pc_, tc) == pc_ = "." \/ Lower(pc_) = Lower(tc)

\* {"$regex": pattern, "$options": "i"} on a text, for patterns built from
\* literal characters and ".": an unanchored search
regex_search(pattern, text) ==
    \E start \in 0..(StrLen(text) - StrLen(pattern)) :
        \A i \in 1..StrLen(pattern) :
            CharMatches(CharAt(pattern, i), CharAt(text, start + i))

\* plain case-insensitive containment
Contains(text, sub) ==
    \E start \in 0..(StrLen(text) - StrLen(sub)) :
        \A i \in 1..StrLen(sub) :
            Lower(CharAt(sub, i)) = Lower(CharAt(text, start + i))

\* collection.find(query): query None is {}, otherwise the category regex
find(coll, category) ==
    IF category = None THEN coll
    ELSE {d \in coll : regex_search(category[1], d.category)}

\* .sort("created_at", -1): every order of S the sort may return (documents
\* with equal created_at come in any order)
sort_created_desc(S) ==
    {s \in [1..Cardinality(S) -> S] :
        /\ \A i, j \in 1..Cardinality(S) : i # j => s[i] # s[j]
        /\ \A i, j \in 1..Cardinality(S) :
              i < j => s[i].created_at >= s[j].created_at}

\* .skip(skip).limit(limit) on the sorted cursor; limit 0 is no limit
window(s, skip, limit) ==
    SubSeq(s, skip + 1,
           IF limit = 0 THEN Len(s) ELSE Min(Len(s), skip + limit))

\* [product_helper(product) for product in products]
helper_list(s) == [i \in 1..Len(s) |-> product_helper(s[i])]

(* --------------------------- request bodies ---------------------------- *)
Mug ==
    [name |-> Some(Str(<<"M", "u", "g">>)), description |-> Some(Str(<<"C", "u", "p">>)),
     price |-> Some(10), category |-> Some(Str(<<"K", "i", "t">>)),
     stock_quantity |-> Some(100)]

\* every field at the far end of its constraint
Widest ==
    [name |-> Some(Rep(NameMaxLength)),
     description |-> Some(Rep(DescriptionMaxLength)),
     price |-> Some(1), category |-> Some(Rep(CategoryMaxLength)),
     stock_quantity |-> Some(0), image_url |-> Some(Str(<<"u">>))]

Tea ==
    [name |-> Some(Str(<<"T">>)), description |-> Some(Str(<<"t">>)), price |-> Some(3),
     category |-> Some(Str(<<"t", "i">>)), stock_quantity |-> Some(1),
     image_url |-> None]

With(body, f, v) == [g \in DOMAIN body \cup {f} |-> IF g = f THEN v ELSE body[g]]

\* Mug with one field outside its constraint, null or missing
InvalidCreateBodies ==
    {With(Mug, "name", Some(Str(<<>>))), With(Mug, "name", Some(Rep(NameMaxLength + 1))),
     With(Mug, "description", Some(Str(<<>>))),
     With(Mug, "description", Some(Rep(DescriptionMaxLength + 1))),
     With(Mug, "price", Some(0)), With(Mug, "price", Some(-1)),
     With(Mug, "category", Some(Str(<<>>))),
     With(Mug, "category", Some(Rep(CategoryMaxLength + 1))),
     With(Mug, "stock_quantity", Some(-1)), With(Mug, "price", None),
     [f \in RequiredFields \ {"name"} |-> Mug[f]]}

NoFields == <<>>

\* bodies whose every field is null
NullBodies == {[image_url |-> None], [price |-> None], [name |-> None, image_url |-> None]}

PriceOnly == [price |-> Some(20)]
StockOnly == [stock_quantity |-> Some(80)]

\* a value, and a value at the far end of its constraint next to a null
ValidUpdateBodies ==
    {PriceOnly, [name |-> Some(Rep(NameMaxLength)), price |-> None]}

InvalidUpdateBodies ==
    {[price |-> Some(0)], [price |-> Some(-1)], [name |-> Some(Str(<<>>))],
     [name |-> Some(Rep(NameMaxLength + 1))], [description |-> Some(Str(<<>>))],
     [description |-> Some(Rep(DescriptionMaxLength + 1))],
     [category |-> Some(Str(<<>>))], [category |-> Some(Rep(CategoryMaxLength + 1))],
     [stock_quantity |-> Some(-1)], [price |-> None, stock_quantity |-> Some(-1)]}

\* the category= values of list requests: absent, empty, and patterns
Categories ==
    {None, Some(Str(<<>>)), Some(Str(<<"k", "i", "t">>)), Some(Str(<<"k", ".", "t">>)),
     Some(Str(<<"T", "I">>))}

(* ------------------------------- state --------------------------------- *)
VARIABLES
    products_collection,  \* db.products: the set of stored documents
    clock,                \* what datetime.utcnow() returns now
    next_uuid,            \* what uuid.uuid4() returns next
    pc,                   \* where each worker's handler stands
    locals,               \* the handler's local variables
    response              \* the response sent last

vars == <<products_collection, clock, next_uuid, pc, locals, response>>

NoLocals == [product_id |-> 0, input |-> <<>>, update_data |-> <<>>, calls |-> 0]

\* a response: the operation and its arguments, the status code, the body
\* (None, <<product>> or a list of products) and the store calls it made
Resp(op, id, input, status, body, calls) ==
    [op |-> op, id |-> id, input |-> input, status |-> status, body |-> body,
     calls |-> calls]

Init ==
    /\ products_collection = {}
    /\ clock = 0
    /\ next_uuid = 1
    /\ pc = [p \in Workers |-> "idle"]
    /\ locals = [p \in Workers |-> NoLocals]
    /\ response = Resp("none", 0, <<>>, 0, None, 0)

Finish(p, resp) ==
    /\ pc' = [pc EXCEPT ![p] = "idle"]
    /\ locals' = [locals EXCEPT ![p] = NoLocals]
    /\ response' = resp

(* ------------------------------ handlers ------------------------------- *)
\* uuid.uuid4()
uuid4 == next_uuid

\* create_product up to insert_one: a body that fails ProductCreate is
\* answered 422 by the framework before the handler runs
create_product(p, body) ==
    /\ pc[p] = "idle"
    /\ IF ~ProductCreate(body)
       THEN /\ response' = Resp("create", 0, body, HTTP_422_UNPROCESSABLE_ENTITY, None, 0)
            /\ UNCHANGED <<products_collection, clock, next_uuid, pc, locals>>
       ELSE /\ next_uuid <= MaxProducts
            /\ LET product_id == uuid4
                   current_time == clock
                   product_dict ==
                       ProductDict(body) @@ [id |-> product_id,
                                             created_at |-> current_time,
                                             updated_at |-> current_time]
               IN  /\ products_collection' =
                          insert_one(products_collection, product_dict, next_uuid)
                   /\ locals' = [locals EXCEPT ![p] =
                          [NoLocals EXCEPT !.product_id = product_id,
                                           !.input = body, !.calls = 1]]
            /\ next_uuid' = next_uuid + 1
            /\ pc' = [pc EXCEPT ![p] = "create_find"]
            /\ UNCHANGED <<clock, response>>

\* create_product from find_one on: product_helper(None) raises, which the
\* handler turns into 500
create_product_find(p) ==
    /\ pc[p] = "create_find"
    /\ LET created_product == find_one(products_collection, locals[p].product_id)
           calls == locals[p].calls + 1
       IN  IF created_product # None
           THEN Finish(p, Resp("create", locals[p].product_id, locals[p].input,
                               HTTP_201_CREATED,
                               Some(product_helper(created_product[1])), calls))
           ELSE Finish(p, Resp("create", locals[p].product_id, locals[p].input,
                               HTTP_500_INTERNAL_SERVER_ERROR, None, calls))
    /\ UNCHANGED <<products_collection, clock, next_uuid>>

\* get_product
get_product(product_id) ==
    /\ LET product == find_one(products_collection, product_id)
       IN  response' =
             IF product # None
             THEN Resp("get", product_id, <<>>, HTTP_200_OK,
                       Some(product_helper(product[1])), 1)
             ELSE Resp("get", product_id, <<>>, HTTP_404_NOT_FOUND, None, 1)
    /\ UNCHANGED <<products_collection, clock, next_uuid, pc, locals>>

\* get_products: "if category:" drops an absent and an empty filter
get_products(skip, limit, category) ==
    /\ LET query == IF category = None \/ category = Some(Str(<<>>))
                    THEN None ELSE category
       IN  \E products \in sort_created_desc(find(products_collection, query)) :
              response' = Resp("list", 0,
                               [skip |-> skip, limit |-> limit, category |-> category],
                               HTTP_200_OK,
                               helper_list(window(products, skip, limit)), 1)
    /\ UNCHANGED <<products_collection, clock, next_uuid, pc, locals>>

\* get_products_by_category: the path segment is always a filter
get_products_by_category(category, skip, limit) ==
    /\ category # None /\ category # Some(Str(<<>>))
    /\ \E products \in sort_created_desc(find(products_collection, category)) :
          response' = Resp("list_by_category", 0,
                           [skip |-> skip, limit |-> limit, category |-> category],
                           HTTP_200_OK,
                           helper_list(window(products, skip, limit)), 1)
    /\ UNCHANGED <<products_collection, clock, next_uuid, pc, locals>>

\* the fields of the body that are applied: "if value is not None"
UpdateData(body) ==
    [f \in {g \in DOMAIN body : body[g] # None} |-> Stored(f, body[f])]

\* "if update_data:"
HasUpdatesAlways(update_data) == TRUE
HasUpdates(update_data) == DOMAIN update_data # {}

\* update_product up to the clock reading that precedes update_one
update_product(p, product_id, body) ==
    /\ pc[p] = "idle"
    /\ LET existing_product == find_one(products_collection, product_id)
           update_data == UpdateData(body)
       IN  IF ~ProductUpdate(body)
           THEN /\ response' = Resp("update", product_id, body,
                                    HTTP_422_UNPROCESSABLE_ENTITY, None, 0)
                /\ UNCHANGED <<pc, locals>>
           ELSE IF existing_product = None
           THEN /\ response' = Resp("update", product_id, body,
                                    HTTP_404_NOT_FOUND, None, 1)
                /\ UNCHANGED <<pc, locals>>
           ELSE IF ~HasUpdates(update_data)
           THEN /\ response' = Resp("update", product_id, body, HTTP_200_OK,
                                    Some(product_helper(existing_product[1])), 1)
                /\ UNCHANGED <<pc, locals>>
           ELSE /\ pc' = [pc EXCEPT ![p] = "update_write"]
                /\ locals' = [locals EXCEPT ![p] =
                       [product_id |-> product_id, input |-> body,
                        update_data |-> update_data @@ ("updated_at" :> clock),
                        calls |-> 1]]
                /\ UNCHANGED response
    /\ UNCHANGED <<products_collection, clock, next_uuid>>

\* the status of an update whose update_one modified nothing
update_not_applied_404 == HTTP_404_NOT_FOUND
update_not_applied == HTTP_500_INTERNAL_SERVER_ERROR

\* update_product: update_one and the test of result.modified_count
update_product_write(p) ==
    /\ pc[p] = "update_write"
    /\ products_collection' =
          update_one(products_collection, locals[p].product_id, locals[p].update_data)
    /\ IF modified_count(products_collection, locals[p].product_id,
                         locals[p].update_data) = 1
       THEN /\ pc' = [pc EXCEPT ![p] = "update_find"]
            /\ locals' = [locals EXCEPT ![p].calls = @ + 1]
            /\ UNCHANGED response
       ELSE Finish(p, Resp("update", locals[p].product_id, locals[p].input,
                           update_not_applied, None, locals[p].calls + 1))
    /\ UNCHANGED <<clock, next_uuid>>

\* update_product: the re-read after a successful update_one
update_product_find(p) ==
    /\ pc[p] = "update_find"
    /\ LET updated_product == find_one(products_collection, locals[p].product_id)
       IN  IF updated_product # None
           THEN Finish(p, Resp("update", locals[p].product_id, locals[p].input,
                               HTTP_200_OK,
                               Some(product_helper(updated_product[1])),
                               locals[p].calls + 1))
           ELSE Finish(p, Resp("update", locals[p].product_id, locals[p].input,
                               HTTP_500_INTERNAL_SERVER_ERROR, None,
                               locals[p].calls + 1))
    /\ UNCHANGED <<products_collection, clock, next_uuid>>

\* delete_product
delete_product_find_first(product_id) ==
    /\ products_collection' = delete_one(products_collection, product_id)
    /\ response' =
          IF find_one(products_collection, product_id) # None
          THEN Resp("delete", product_id, <<>>, HTTP_204_NO_CONTENT, None, 2)
          ELSE Resp("delete", product_id, <<>>, HTTP_404_NOT_FOUND, None, 1)
    /\ UNCHANGED <<clock, next_uuid, pc, locals>>
delete_product(product_id) ==
    /\ products_collection' = delete_one(products_collection, product_id)
    /\ response' =
          IF deleted_count(products_collection, product_id) = 1
          THEN Resp("delete", product_id, <<>>, HTTP_204_NO_CONTENT, None, 1)
          ELSE Resp("delete", product_id, <<>>, HTTP_404_NOT_FOUND, None, 1)
    /\ UNCHANGED <<clock, next_uuid, pc, locals>>

\* time passes
Tick ==
    /\ clock < MaxClock
    /\ clock' = clock + 1
    /\ UNCHANGED <<products_collection, next_uuid, pc, locals, response>>

(* --------------------------- specifications ---------------------------- *)
\* Spec: workers interleave at every store call; few bodies.
CreateBodies == {Mug, With(Mug, "price", Some(-1))}
UpdateBodies == {NoFields, [image_url |-> None], PriceOnly, StockOnly, [price |-> Some(0)]}

Next ==
    \/ \E p \in Workers, body \in CreateBodies : create_product(p, body)
    \/ \E p \in Workers : create_product_find(p)
    \/ \E id \in Ids : get_product(id)
    \/ \E limit \in 1..MaxLimit : get_products(0, limit, None)
    \/ \E p \in Workers, id \in Ids, body \in UpdateBodies : update_product(p, id, body)
    \/ \E p \in Workers : update_product_write(p)
    \/ \E p \in Workers : update_product_find(p)
    \/ \E id \in Ids : delete_product(id)
    \/ Tick

Spec == Init /\ [][Next]_vars

\* SpecValidation: one request at a time; bodies at and beyond the ends of
\* every constraint, null and missing fields.
AllIdle == \A p \in Workers : pc[p] = "idle"

NextValidation ==
    \/ AllIdle /\ \E body \in {Widest} \cup InvalidCreateBodies :
                     create_product(1, body)
    \/ create_product_find(1)
    \/ AllIdle /\ \E id \in Ids : get_product(id)
    \/ AllIdle /\ \E id \in Ids,
                     body \in {NoFields} \cup NullBodies \cup ValidUpdateBodies
                              \cup InvalidUpdateBodies :
                     update_product(1, id, body)
    \/ update_product_write(1)
    \/ update_product_find(1)
    \/ AllIdle /\ \E id \in Ids : delete_product(id)
    \/ Tick

SpecValidation == Init /\ [][NextValidation]_vars

\* SpecList: one request at a time, products of two categories, every list
\* query.
NextList ==
    \/ AllIdle /\ \E body \in {Mug, Tea} : create_product(1, body)
    \/ create_product_find(1)
    \/ AllIdle /\ \E skip \in 0..MaxSkip, limit \in 0..MaxLimit, category \in Categories :
                     get_products(skip, limit, category)
    \/ AllIdle /\ \E skip \in 0..MaxSkip, limit \in 0..MaxLimit, category \in Categories :
                     get_products_by_category(category, skip, limit)
    \/ AllIdle /\ \E id \in Ids : delete_product(id)
    \/ Tick

SpecList == Init /\ [][NextList]_vars

(* ------------------------------ properties ----------------------------- *)
Present(id) == Matching(products_collection, id) # {}
PresentNext(id) == Matching(products_collection', id) # {}
Doc(id) == CHOOSE d \in Matching(products_collection, id) : TRUE
DocNext(id) == CHOOSE d \in Matching(products_collection', id) : TRUE

\* the step sends a response: the clock stands and every handler that moved
\* has returned
Responds ==
    /\ clock' = clock
    /\ \A p \in Workers : pc'[p] # pc[p] => pc'[p] = "idle"

\* worker p performs its update_one in this step
Writes(p) == pc[p] = "update_write" /\ pc'[p] # "update_write"

\* the fields a body supplies with a value that is not null
Supplied(body) == {f \in DOMAIN body : body[f] # None}

\* a body with a value outside the constraint of its field
BreaksConstraint(body) ==
    \E f \in DOMAIN body :
        /\ body[f] # None
        /\ \/ f = "name" /\ (StrLen(body[f][1]) < 1 \/ StrLen(body[f][1]) > 200)
           \/ f = "description" /\ (StrLen(body[f][1]) < 1 \/ StrLen(body[f][1]) > 1000)
           \/ f = "price" /\ body[f][1] <= 0
           \/ f = "category" /\ (StrLen(body[f][1]) < 1 \/ StrLen(body[f][1]) > 100)
           \/ f = "stock_quantity" /\ body[f][1] < 0

\* ids uuid4 has handed out that are not in the store. create_product inserts
\* in the step that draws the id, so these are the ids a delete_one removed.
Deleted == {i \in 1..(next_uuid - 1) : ~Present(i)}

\* C1: a successful create returns a product with a fresh id and
\* created_at = updated_at, and a getById of that id that follows with no
\* request in between returns the same product.
C1_CreateThenGet ==
    /\ [](response.op = "create" /\ response.status = HTTP_201_CREATED =>
            /\ response.body[1].id = response.id
            /\ response.body[1].created_at = response.body[1].updated_at)
    /\ [][(/\ Responds
           /\ AllIdle
           /\ response.op = "create" /\ response.status = HTTP_201_CREATED
           /\ response'.op = "get" /\ response'.id = response.id)
          => response'.body = response.body]_vars

\* C2 as stated: getById, update with any body, and delete of an id that is
\* not in the store answer 404.
C2_AbsentIsNotFound ==
    [][(/\ Responds
        /\ response'.op \in {"get", "update", "delete"}
        /\ response'.calls <= 1
        /\ ~Present(response'.id))
       => response'.status = HTTP_404_NOT_FOUND]_vars

\* C2 amended: getById and delete of an id that is not in the store answer
\* 404; update answers 404 when its body meets the field constraints, and 422
\* without a store call when it does not.
C2_AbsentIsNotFoundForValidBody ==
    [][(/\ Responds
        /\ response'.op \in {"get", "update", "delete"}
        /\ response'.calls <= 1
        /\ ~Present(response'.id))
       => IF response'.op = "update" /\ BreaksConstraint(response'.input)
          THEN response'.status = HTTP_422_UNPROCESSABLE_ENTITY /\ response'.calls = 0
          ELSE response'.status = HTTP_404_NOT_FOUND]_vars

C2_Witness ==
    /\ response.op = "update"
    /\ response.status = HTTP_404_NOT_FOUND
    /\ Supplied(response.input) # {}
    /\ response.id \in Deleted

\* C3: an update_one of a body that supplies only price, on a product in the
\* store, changes price and updated_at of that product and nothing else, and
\* the new updated_at is greater than the old one.
C3_PriceOnlyUpdate ==
    [][\A p \in Workers :
          (/\ Writes(p)
           /\ DOMAIN locals[p].input = {"price"}
           /\ Present(locals[p].product_id))
          => LET id == locals[p].product_id
                 old == Doc(id)
             IN  /\ PresentNext(id)
                 /\ DocNext(id).price = locals[p].input.price[1]
                 /\ \A k \in DOMAIN old \ {"price", "updated_at"} :
                       DocNext(id)[k] = old[k]
                 /\ products_collection' \ {DocNext(id)} = products_collection \ {old}
                 /\ DocNext(id).updated_at > old.updated_at]_vars

\* C4: an update of a product in the store whose body supplies no field, or
\* only nulls, answers 200 with the stored product after one read, and
\* leaves the store as it was.
C4_EmptyUpdateIsNoOp ==
    [][(/\ Responds
        /\ response'.op = "update"
        /\ Supplied(response'.input) = {}
        /\ Present(response'.id))
       => /\ response'.status = HTTP_200_OK
          /\ response'.calls = 1
          /\ products_collection' = products_collection
          /\ response'.body = Some(product_helper(Doc(response'.id)))]_vars

C4_Witness ==
    /\ response.op = "update"
    /\ response.status = HTTP_200_OK
    /\ response.input = [image_url |-> None]
    /\ response.body[1].updated_at < clock

\* C5: a deleted id stays out of the store whatever step follows, and every
\* getById of it answers 404.
C5_DeletedStaysDeleted ==
    [][/\ \A i \in Deleted : ~PresentNext(i)
       /\ (Responds /\ response'.op = "get" /\ response'.id \in Deleted)
             => response'.status = HTTP_404_NOT_FOUND]_vars

\* a getById of a deleted id answers 404 while an update of that id, begun
\* before the delete, is still to write
C5_Witness ==
    /\ response.op = "get"
    /\ response.status = HTTP_404_NOT_FOUND
    /\ response.id \in Deleted
    /\ \E p \in Workers :
          pc[p] = "update_write" /\ locals[p].product_id = response.id

\* C6: no two stored products share an id, created_at <= updated_at, every
\* stored product meets the field constraints, and a request whose body
\* breaks one is answered 422 and leaves the store as it was.
C6_StoreInvariants ==
    /\ [](/\ \A d, e \in products_collection : d.id = e.id => d = e
          /\ \A d \in products_collection :
                /\ d.created_at <= d.updated_at
                /\ StrLen(d.name) >= 1 /\ StrLen(d.name) <= 200
                /\ StrLen(d.description) >= 1 /\ StrLen(d.description) <= 1000
                /\ d.price > 0
                /\ StrLen(d.category) >= 1 /\ StrLen(d.category) <= 100
                /\ d.stock_quantity >= 0
          /\ (response.op \in {"create", "update"} /\ BreaksConstraint(response.input))
                => response.status = HTTP_422_UNPROCESSABLE_ENTITY /\ response.calls = 0)
    /\ [][(Responds /\ response'.status = HTTP_422_UNPROCESSABLE_ENTITY)
          => products_collection' = products_collection]_vars

\* a body that breaks a constraint was refused while the store holds a
\* product at the far end of the constraints, already updated
C6_Witness ==
    /\ response.op = "update"
    /\ response.status = HTTP_422_UNPROCESSABLE_ENTITY
    /\ \E d \in products_collection :
          StrLen(d.description) = 1000 /\ d.created_at < d.updated_at
    /\ Cardinality(products_collection) = 2

\* C7: list(skip=0, limit=N), N > 0, returns at most N products in descending
\* created_at, the N latest of those whose category contains the filter
\* (case-insensitively), none of them left out.
ListMatches(category) ==
    {product_helper(d) : d \in
        {e \in products_collection :
            category = None \/ Contains(e.category, category[1])}}

C7_ListWindow ==
    [][(/\ Responds
        /\ response'.op \in {"list", "list_by_category"}
        /\ response'.input.skip = 0
        /\ response'.input.limit > 0)
       => LET got == response'.body
              N == response'.input.limit
              M == ListMatches(response'.input.category)
          IN  /\ Len(got) <= N
              /\ \A i, j \in 1..Len(got) :
                    i < j => got[i].created_at >= got[j].created_at
              /\ \A i \in 1..Len(got) : got[i] \in M
              /\ Len(got) = Min(N, Cardinality(M))
              /\ \A m \in M :
                    (\A i \in 1..Len(got) : got[i] # m)
                    => \A i \in 1..Len(got) : got[i].created_at >= m.created_at]_vars

\* C8 as stated: a request the handlers serve makes one store call, create
\* makes two.
C8_OneRoundTrip ==
    (response.op # "none" /\ response.status # HTTP_422_UNPROCESSABLE_ENTITY)
    => response.calls = IF response.op = "create" THEN 2 ELSE 1

\* C8 amended: getById, list and delete make one store call and create two;
\* update makes one when the id is absent or the body supplies nothing, three
\* when it succeeds, two or three when it answers 500; a body refused with
\* 422 makes none.
C8_RoundTrips ==
    response.op # "none" =>
        IF response.status = HTTP_422_UNPROCESSABLE_ENTITY THEN response.calls = 0
        ELSE CASE response.op = "create" -> response.calls = 2
               [] response.op = "update" ->
                     IF response.status = HTTP_404_NOT_FOUND
                           \/ Supplied(response.input) = {}
                     THEN response.calls = 1
                     ELSE IF response.status = HTTP_200_OK
                     THEN response.calls = 3
                     ELSE response.calls \in {2, 3}
               [] OTHER -> response.calls = 1

C8_Witness ==
    /\ response.op = "update"
    /\ response.status = HTTP_200_OK
    /\ response.calls = 3

\* C9: an update_one that finds its product deleted since the existence
\* check answers 500 and leaves the store, which lacks that product, as it
\* was.
C9_UpdateAfterDelete ==
    [][\A p \in Workers :
          (Writes(p) /\ ~Present(locals[p].product_id))
          => /\ response'.op = "update"
             /\ response'.id = locals[p].product_id
             /\ response'.status = HTTP_500_INTERNAL_SERVER_ERROR
             /\ pc'[p] = "idle"
             /\ products_collection' = products_collection]_vars

C9_Witness ==
    /\ response.op = "update"
    /\ response.status = HTTP_500_INTERNAL_SERVER_ERROR
    /\ response.calls = 2
    /\ ~Present(response.id)
    /\ products_collection # {}

\* C10: when a worker writes an update while another worker's update of the
\* same product, on other fields, is already in the stored product, the
\* stored product afterwards holds the fields of both, and every field
\* neither supplied, updated_at apart, is as it was.
C10_DisjointUpdatesBothApply ==
    [][\A p, q \in Workers :
          (/\ p # q
           /\ Writes(p)
           /\ pc[q] = "update_find"
           /\ locals[q].product_id = locals[p].product_id
           /\ Supplied(locals[p].input) \cap Supplied(locals[q].input) = {}
           /\ Present(locals[p].product_id)
           /\ \A f \in Supplied(locals[q].input) :
                 Doc(locals[p].product_id)[f] = locals[q].update_data[f])
          => LET id == locals[p].product_id
                 old == Doc(id)
             IN  /\ PresentNext(id)
                 /\ \A f \in Supplied(locals[q].input) :
                       DocNext(id)[f] = locals[q].update_data[f]
                 /\ \A f \in Supplied(locals[p].input) :
                       DocNext(id)[f] = locals[p].update_data[f]
                 /\ \A k \in DOMAIN old \ (Supplied(locals[p].input) \cup {"updated_at"}) :
                       DocNext(id)[k] = old[k]]_vars

C10_Witness ==
    \E p, q \in Workers :
        /\ pc[p] = "update_find" /\ pc[q] = "update_find"
        /\ locals[p].product_id = locals[q].product_id
        /\ locals[p].input = PriceOnly /\ locals[q].input = StockOnly
        /\ Present(locals[p].product_id)
        /\ Doc(locals[p].product_id).price = 20
        /\ Doc(locals[p].product_id).stock_quantity = 80
        /\ Doc(locals[p].product_id).name = Str(<<"M", "u", "g">>)

====
